---- MODULE Spec2Model ----
(***************************************************************************)
(* Video transcoding queue of TND_NEWs (tnd_apps/tndvideo): the Video and  *)
(* VideoProcessingQueue tables, the Celery task process_video_task with    *)
(* VideoProcessor.process, the periodic tasks process_queued_videos and    *)
(* cleanup_old_processing_tasks, the upload / retry-processing /           *)
(* bulk-process / processing-status views and the admin actions on videos  *)
(* and on queue entries.                                                   *)
(*                                                                         *)
(* A task execution is a sequence of steps, one per database or file       *)
(* system statement, that other executions and requests interleave with;   *)
(* pc names the step an execution takes next.  A request handler, an admin *)
(* action and a periodic task are one step each.                           *)
(***************************************************************************)
EXTENDS Integers, Sequences, FiniteSets, TLC

\* ---------------------------------------------------------------- bounds
MaxVideos == 2
MaxEntries == 2
MaxTasks == 2
MaxTime == 3
MaxDim == 16

Videos == 1..MaxVideos
\* the video of the single-video specifications
OneVideo == {1}
TaskIds == 1..MaxTasks

\* ------------------------------------------------------ program constants
\* VideoProcessingQueue.max_retries, default
DefaultMaxRetries == 3
\* @shared_task(bind=True, max_retries=3)
TaskMaxRetries == 3
\* timedelta(hours=2) in cleanup_old_processing_tasks, in clock units (hours)
StaleHours == 2
\* SEGMENT_DURATION = 4  # seconds
SegmentDuration == 4
\* base of the backoff expression 60 * (2 ** retry_count)
BackoffBase == 60
\* no HTTP response sent
NoCode == 0
\* status.HTTP_200_OK, status.HTTP_400_BAD_REQUEST
HttpOk == 200
HttpBadRequest == 400
\* QuerySet.first() on an empty result: None
NoEntry == 0
\* started_at = NULL
NullTime == -1

Priorities == {"low", "normal", "high", "urgent"}
\* the priorities requests are sent with (retry-processing adds "high")
InputPriorities == {"normal", "urgent"}
\* the presets taken in the alphabetical order of their names
TiersByName == <<"high", "low", "medium">>
\* QUALITY_PRESETS, in the order of the dict
Tiers == <<"low", "medium", "high">>

\* The order the specification gives: urgent > high > normal > low.
PriorityRank(p) ==
    CASE p = "low" -> 1 [] p = "normal" -> 2 [] p = "high" -> 3 [] p = "urgent" -> 4

\* priority is a CharField: order_by('-priority') and priority__gte compare
\* the strings, 'high' < 'low' < 'normal' < 'urgent'.
StrRank(p) ==
    CASE p = "high" -> 1 [] p = "low" -> 2 [] p = "normal" -> 3 [] p = "urgent" -> 4

RECURSIVE Pow2(_)
Pow2(n) == IF n = 0 THEN 1 ELSE 2 * Pow2(n - 1)

\* retry_delay = 60 * (2 ** queue_task.retry_count)
RetryDelay(retry_count) == BackoffBase * Pow2(retry_count)

\* ------------------------------------------------------------------ state
VARIABLES
    video,      \* Video rows: [status, processing_error, processing_progress,
                \*              master_playlist_path, thumbnail_file (is one stored), created_at]
    qualities,  \* VideoQuality rows with is_processed = True, per video
    dir,        \* does MEDIA_ROOT/videos/processed/<video id> exist
    queue,      \* VideoProcessingQueue rows in creation order (index = id, queued_at order)
    tasks,      \* process_video_task messages and executions
    now,        \* wall clock, hours
    hist,       \* per video: outcomes of the pipeline runs that returned, in order
    claimed,    \* <<task, entry>>: the task executed the queued -> processing write for the entry
    last_sweep, \* the time cleanup_old_processing_tasks last ran (NullTime: never)
    cancelled_queued, \* entries cancelled while queued, their video uploaded, no task begun
    manifest,   \* per video: the sub-manifests master.m3u8 of the working directory lists, in order
    response,   \* the queue_position of the last processing-status response
    scaled      \* the source size and the output size of the last _process_quality scaling

vars == <<video, qualities, dir, queue, tasks, now, hist, claimed, last_sweep, cancelled_queued,
          manifest, response, scaled>>

NoVideo == [status |-> "absent", processing_error |-> "", processing_progress |-> 0,
            master_playlist_path |-> "", thumbnail_file |-> FALSE, created_at |-> NullTime]

\* qualities_info is the list process() collects; log lists the percentages
\* the execution has passed to _update_progress.
FreeTask == [pc |-> "free", video |-> 0, queue_task |-> NoEntry, retry_count |-> 0,
             mem |-> NoVideo, idx |-> 0, retries |-> 0, countdown |-> 0,
             qualities_info |-> <<>>, log |-> <<>>]

\* _process_quality not called yet
NoScale == [quality |-> "", width |-> 0, height |-> 0, scale_width |-> 0, scale_height |-> 0,
            fps_num |-> 0, fps_den |-> 0, g |-> 0]

\* no processing-status request answered yet
NoResponse == [entry |-> NoEntry, queue_position |-> 0, code |-> NoCode]

Init ==
    /\ video = [v \in Videos |-> NoVideo]
    /\ qualities = [v \in Videos |-> {}]
    /\ dir = [v \in Videos |-> FALSE]
    /\ queue = <<>>
    /\ tasks = [t \in TaskIds |-> FreeTask]
    /\ now = 0
    /\ hist = [v \in Videos |-> <<>>]
    /\ claimed = {}
    /\ last_sweep = NullTime
    /\ cancelled_queued = {}
    /\ manifest = [v \in Videos |-> <<>>]
    /\ response = NoResponse
    /\ scaled = NoScale

EntryIds == 1..Len(queue)

FreeSlots == {t \in TaskIds : tasks[t].pc = "free"}

\* process_video_task.delay(str(video.id)): a new message in the broker.
Delay(v) ==
    LET t == CHOOSE s \in FreeSlots : \A u \in FreeSlots : s <= u
    IN  [tasks EXCEPT ![t] = [FreeTask EXCEPT !.pc = "queued", !.video = v]]

NewEntryNoRetries(v, p) ==
    [video |-> v, priority |-> p, status |-> "queued", started_at |-> NullTime,
     retry_count |-> 0, max_retries |-> 0, error_message |-> "",
     claimed_at |-> NullTime]

NewEntry(v, p) ==
    [video |-> v, priority |-> p, status |-> "queued", started_at |-> NullTime,
     retry_count |-> 0, max_retries |-> DefaultMaxRetries, error_message |-> "",
     claimed_at |-> NullTime]

\* VideoUploadView.create: _create_video, then _queue_for_processing.
Upload(v, p) ==
    /\ video[v].status = "absent"
    /\ Len(queue) < MaxEntries
    /\ FreeSlots # {}
    /\ video' = [video EXCEPT ![v] = [NoVideo EXCEPT !.status = "uploaded", !.created_at = now]]
    /\ queue' = Append(queue, NewEntry(v, p))
    /\ tasks' = Delay(v)
    /\ UNCHANGED <<qualities, dir, now, hist, claimed, last_sweep, cancelled_queued, manifest, response, scaled>>

\* the upload request carries no priority field
NoPriority == "absent"
RequestPriorities == Priorities \cup {NoPriority}

\* a missing priority taken as the lowest one
ValidatedPriorityLow(req) == IF req = NoPriority THEN "low" ELSE req

\* VideoUploadSerializer.priority: ChoiceField(default='normal', required=False);
\* create() reads validated_data.get('priority', 'normal').
ValidatedPriority(req) == IF req = NoPriority THEN "normal" ELSE req

\* POST /api/videos/upload/ with the priority field as sent.
UploadRequest(v, req) == Upload(v, ValidatedPriority(req))

\* ------------------------------------------------- process_video_task
\* A worker takes the message: video = Video.objects.get(id=video_id).
\* The local variables of an earlier execution (a retry) are gone.
TaskGet(t) ==
    /\ tasks[t].pc = "queued"
    /\ tasks' = [tasks EXCEPT ![t].pc = "save_status",
                              ![t].mem = video[tasks[t].video],
                              ![t].queue_task = NoEntry,
                              ![t].retry_count = 0,
                              ![t].idx = 0,
                              ![t].qualities_info = <<>>,
                              ![t].log = <<>>]
    /\ UNCHANGED <<video, qualities, dir, queue, now, hist, claimed, last_sweep, cancelled_queued, manifest, response, scaled>>

\* video.status = 'processing'; video.save(update_fields=['status', 'processing_started_at'])
TaskSaveStatus(t) ==
    /\ tasks[t].pc = "save_status"
    /\ video' = [video EXCEPT ![tasks[t].video].status = "processing"]
    /\ tasks' = [tasks EXCEPT ![t].pc = "select", ![t].mem.status = "processing"]
    /\ UNCHANGED <<qualities, dir, queue, now, hist, claimed, last_sweep, cancelled_queued, manifest, response, scaled>>

QueuedOf(v) == {e \in EntryIds : queue[e].video = v /\ queue[e].status = "queued"}

\* Meta.ordering = ['-priority', 'queued_at'] on the CharField priority.
Before(a, b) ==
    \/ StrRank(queue[a].priority) > StrRank(queue[b].priority)
    \/ /\ queue[a].priority = queue[b].priority
       /\ a < b

First(S) == CHOOSE e \in S : \A o \in S \ {e} : Before(e, o)

\* queue_task = VideoProcessingQueue.objects.filter(video=video, status='queued').first()
TaskSelect(t) ==
    /\ tasks[t].pc = "select"
    /\ LET S == QueuedOf(tasks[t].video)
       IN  IF S = {}
           THEN tasks' = [tasks EXCEPT ![t].pc = "mkdir", ![t].queue_task = NoEntry]
           ELSE tasks' = [tasks EXCEPT ![t].pc = "claim",
                                       ![t].queue_task = First(S),
                                       ![t].retry_count = queue[First(S)].retry_count]
    /\ UNCHANGED <<video, qualities, dir, queue, now, hist, claimed, last_sweep, cancelled_queued, manifest, response, scaled>>

\* queue_task.status = 'processing'; queue_task.save(update_fields=['status', 'task_id']):
\* save() sets started_at on the object, update_fields keeps it out of the UPDATE.
TaskClaim(t) ==
    /\ tasks[t].pc = "claim"
    /\ queue' = [queue EXCEPT ![tasks[t].queue_task].status = "processing",
                              ![tasks[t].queue_task].claimed_at = now]
    /\ claimed' = claimed \cup {<<t, tasks[t].queue_task>>}
    /\ tasks' = [tasks EXCEPT ![t].pc = "mkdir"]
    /\ UNCHANGED <<video, qualities, dir, now, hist, last_sweep, cancelled_queued, manifest, response, scaled>>


\* ------------------------------------------------- VideoProcessor.process
\* _update_progress: self.video.processing_progress = percentage;
\* self.video.save(update_fields=['processing_progress'])
Progress(vid, v, pct) == [vid EXCEPT ![v].processing_progress = pct]

\* the share of the tiers not divided by the number of presets
TierProgressUndivided(idx) == 15 + idx * 75

\* int(15 + (idx + 1) * (75 / len(QUALITY_PRESETS))), idx counted from 1 here
TierProgress(idx) == 15 + (idx * 75) \div Len(Tiers)

\* QUALITY_PRESETS[quality]['width'] and ['height']
PresetWidth(q) == CASE q = "low" -> 640 [] q = "medium" -> 1280 [] q = "high" -> 1920
PresetHeight(q) == CASE q = "low" -> 360 [] q = "medium" -> 720 [] q = "high" -> 1080

\* int() of a float quotient a / b of positive numbers: the floor; when the
\* quotient is a whole number the two float roundings can leave it just
\* below, and int() then returns one less (down).
IntQuotient(a, b, down) == IF a % b = 0 /\ down THEN (a \div b) - 1 ELSE a \div b

\* the evenness correction left out
Unrounded(x) == x

\* scale_height = scale_height - (scale_height % 2), the same for scale_width
MakeEven(x) == x - (x % 2)

\* _process_quality, "Calculate scaled dimensions maintaining aspect ratio":
\* aspect_ratio > target_aspect scales by width, otherwise by height.
ScaleDimensions(q, iw, ih, down) ==
    IF iw * PresetHeight(q) > PresetWidth(q) * ih
    THEN [scale_width |-> PresetWidth(q),
          scale_height |-> MakeEven(IntQuotient(PresetWidth(q) * ih, iw, down))]
    ELSE [scale_width |-> MakeEven(IntQuotient(PresetHeight(q) * iw, ih, down)),
          scale_height |-> PresetHeight(q)]

\* ffprobe's r_frame_rate as <<numerator, denominator>>: the whole rates, the
\* NTSC rates 24000/1001 and 30000/1001, and 15/2
FrameRates == {<<24, 1>>, <<25, 1>>, <<30, 1>>, <<24000, 1001>>, <<30000, 1001>>, <<15, 2>>}

\* 'g': int(metadata['fps'] * self.SEGMENT_DURATION), fps = eval('num/den'):
\* int() drops the fraction of the float product.
KeyframeInterval(rate) == (rate[1] * SegmentDuration) \div rate[2]

\* One call of _process_quality up to the ffmpeg command, for a source of
\* iw x ih pixels at the frame rate `rate`.
ProcessQualityScale(q, iw, ih, down, rate) ==
    /\ scaled' = [quality |-> q, width |-> iw, height |-> ih,
                  scale_width |-> ScaleDimensions(q, iw, ih, down).scale_width,
                  scale_height |-> ScaleDimensions(q, iw, ih, down).scale_height,
                  fps_num |-> rate[1], fps_den |-> rate[2],
                  g |-> KeyframeInterval(rate)]
    /\ UNCHANGED <<video, qualities, dir, queue, tasks, now, hist, claimed, last_sweep,
                   cancelled_queued, manifest, response>>

\* The percentage joins the execution's list of checkpoints.
Logged(tk, t, pct) == [tk EXCEPT ![t].log = Append(@, pct)]

\* Step 1: _create_directory_structure (mkdir, exist_ok), progress 5.
PipeMkdir(t) ==
    LET v == tasks[t].video IN
    /\ tasks[t].pc = "mkdir"
    /\ dir' = [dir EXCEPT ![v] = TRUE]
    /\ video' = Progress(video, v, 5)
    /\ tasks' = [Logged(tasks, t, 5) EXCEPT ![t].pc = "meta", ![t].mem.processing_progress = 5]
    /\ UNCHANGED <<qualities, queue, now, hist, claimed, last_sweep, cancelled_queued, manifest, response, scaled>>

\* Step 2: _extract_metadata (ffprobe may raise), _save_metadata (writes
\* metadata.json into the working directory), _update_video_metadata, progress 10.
PipeMeta(t) ==
    LET v == tasks[t].video IN
    /\ tasks[t].pc = "meta"
    /\ \/ /\ dir[v]
          /\ video' = Progress(video, v, 10)
          /\ tasks' = [Logged(tasks, t, 10) EXCEPT ![t].pc = "thumb",
                                                   ![t].mem.processing_progress = 10]
       \/ /\ tasks' = [tasks EXCEPT ![t].pc = "handle_error"]
          /\ UNCHANGED video
    /\ UNCHANGED <<qualities, dir, queue, now, hist, claimed, last_sweep, cancelled_queued, manifest, response, scaled>>

\* a thumbnail error handled like any other error of the run
PipeThumbFatal(t) ==
    LET v == tasks[t].video IN
    /\ tasks[t].pc = "thumb"
    /\ \/ /\ dir[v]
          /\ video' = Progress([video EXCEPT ![v] = [tasks[t].mem EXCEPT !.thumbnail_file = TRUE]],
                               v, 15)
          /\ tasks' = [Logged(tasks, t, 15) EXCEPT ![t].pc = "tier", ![t].idx = 1,
                                                   ![t].mem = NoVideo]
       \/ /\ tasks' = [tasks EXCEPT ![t].pc = "handle_error"]
          /\ UNCHANGED video
    /\ UNCHANGED <<qualities, dir, queue, now, hist, claimed, last_sweep, cancelled_queued, manifest, response, scaled>>

\* Step 3: _generate_thumbnail.  On success thumbnail_file.save(..., save=True)
\* saves the whole in-memory Video row; any exception is logged and swallowed.
\* Then progress 15.  No later statement of the execution reads the in-memory
\* row (every later save names its update_fields), so mem is dropped here.
PipeThumb(t) ==
    LET v == tasks[t].video IN
    /\ tasks[t].pc = "thumb"
    /\ \/ /\ dir[v]
          /\ video' = Progress([video EXCEPT ![v] = [tasks[t].mem EXCEPT !.thumbnail_file = TRUE]],
                               v, 15)
       \/ video' = Progress(video, v, 15)
    /\ tasks' = [Logged(tasks, t, 15) EXCEPT ![t].pc = "tier", ![t].idx = 1, ![t].mem = NoVideo]
    /\ UNCHANGED <<qualities, dir, queue, now, hist, claimed, last_sweep, cancelled_queued, manifest, response, scaled>>

\* a tier whose encode fails is skipped and the loop goes on
PipeTierSkipsFailed(t) ==
    LET v == tasks[t].video
        k == tasks[t].idx IN
    /\ tasks[t].pc = "tier"
    /\ \/ /\ dir[v]
          /\ video' = Progress(video, v, TierProgress(k))
          /\ tasks' = [Logged(tasks, t, TierProgress(k)) EXCEPT
                          ![t].pc = IF k = Len(Tiers) THEN "master" ELSE "tier",
                          ![t].idx = k + 1,
                          ![t].qualities_info = Append(@, Tiers[k])]
       \/ /\ tasks' = [tasks EXCEPT ![t].pc = IF k = Len(Tiers) THEN "master" ELSE "tier",
                                    ![t].idx = k + 1]
          /\ UNCHANGED video
    /\ UNCHANGED <<qualities, dir, queue, now, hist, claimed, last_sweep, cancelled_queued, manifest, response, scaled>>

\* the master playlist step left out after the last tier
PipeTierSkipsMaster(t) ==
    LET v == tasks[t].video
        k == tasks[t].idx IN
    /\ tasks[t].pc = "tier"
    /\ \/ /\ dir[v]
          /\ video' = Progress(video, v, TierProgress(k))
          /\ tasks' = [Logged(tasks, t, TierProgress(k)) EXCEPT
                          ![t].pc = IF k = Len(Tiers) THEN "records" ELSE "tier",
                          ![t].idx = k + 1,
                          ![t].qualities_info = Append(@, Tiers[k])]
       \/ /\ tasks' = [tasks EXCEPT ![t].pc = "handle_error"]
          /\ UNCHANGED video
    /\ UNCHANGED <<qualities, dir, queue, now, hist, claimed, last_sweep, cancelled_queued, manifest, response, scaled>>

\* Step 4: the loop over QUALITY_PRESETS; _process_quality runs ffmpeg into
\* the tier's directory and re-raises ffmpeg.Error; its quality_info is
\* appended to qualities_info.
PipeTier(t) ==
    LET v == tasks[t].video
        k == tasks[t].idx IN
    /\ tasks[t].pc = "tier"
    /\ \/ /\ dir[v]
          /\ video' = Progress(video, v, TierProgress(k))
          /\ tasks' = [Logged(tasks, t, TierProgress(k)) EXCEPT
                          ![t].pc = IF k = Len(Tiers) THEN "master" ELSE "tier",
                          ![t].idx = k + 1,
                          ![t].qualities_info = Append(@, Tiers[k])]
       \/ /\ tasks' = [tasks EXCEPT ![t].pc = "handle_error"]
          /\ UNCHANGED video
    /\ UNCHANGED <<qualities, dir, queue, now, hist, claimed, last_sweep, cancelled_queued, manifest, response, scaled>>

\* master.m3u8 opened for appending instead of truncated
PipeMasterAppend(t) ==
    LET v == tasks[t].video IN
    /\ tasks[t].pc = "master"
    /\ IF dir[v]
       THEN /\ manifest' = [manifest EXCEPT ![v] = @ \o tasks[t].qualities_info]
            /\ video' = [video EXCEPT ![v].master_playlist_path = "master.m3u8",
                                      ![v].processing_progress = 95]
            /\ tasks' = [Logged(tasks, t, 95) EXCEPT ![t].pc = "records"]
       ELSE /\ tasks' = [tasks EXCEPT ![t].pc = "handle_error"]
            /\ UNCHANGED <<video, manifest>>
    /\ UNCHANGED <<qualities, dir, queue, now, hist, claimed, last_sweep, cancelled_queued, response, scaled>>

\* Step 5: _generate_master_playlist writes master.m3u8 into the working
\* directory (open() raises when the directory is gone), one
\* <quality>/playlist.m3u8 line per element of qualities_info, saves
\* master_playlist_path, progress 95.
PipeMaster(t) ==
    LET v == tasks[t].video IN
    /\ tasks[t].pc = "master"
    /\ IF dir[v]
       THEN /\ manifest' = [manifest EXCEPT ![v] = tasks[t].qualities_info]
            /\ video' = [video EXCEPT ![v].master_playlist_path = "master.m3u8",
                                      ![v].processing_progress = 95]
            /\ tasks' = [Logged(tasks, t, 95) EXCEPT ![t].pc = "records"]
       ELSE /\ tasks' = [tasks EXCEPT ![t].pc = "handle_error"]
            /\ UNCHANGED <<video, manifest>>
    /\ UNCHANGED <<qualities, dir, queue, now, hist, claimed, last_sweep, cancelled_queued, response, scaled>>

\* Step 6: _save_quality_records (update_or_create per element of
\* qualities_info, is_processed=True), progress 98.
PipeRecords(t) ==
    LET v == tasks[t].video
        info == tasks[t].qualities_info IN
    /\ tasks[t].pc = "records"
    /\ qualities' = [qualities EXCEPT ![v] = @ \cup {info[i] : i \in 1..Len(info)}]
    /\ video' = Progress(video, v, 98)
    /\ tasks' = [Logged(tasks, t, 98) EXCEPT ![t].pc = "finalize"]
    /\ UNCHANGED <<dir, queue, now, hist, claimed, last_sweep, cancelled_queued, manifest, response, scaled>>

\* Step 7: _finalize_processing (status ready, progress 100; processing_error
\* is not among its update_fields), progress 100, return True.
PipeFinalize(t) ==
    LET v == tasks[t].video IN
    /\ tasks[t].pc = "finalize"
    /\ video' = [video EXCEPT ![v].status = "ready", ![v].processing_progress = 100]
    /\ tasks' = [Logged(tasks, t, 100) EXCEPT ![t].pc = "complete"]
    /\ hist' = [hist EXCEPT ![v] = Append(@, "ok")]
    /\ UNCHANGED <<qualities, dir, queue, now, claimed, last_sweep, cancelled_queued, manifest, response, scaled>>

\* except Exception: _handle_error saves status failed and processing_error ...
PipeHandleError(t) ==
    LET v == tasks[t].video IN
    /\ tasks[t].pc = "handle_error"
    /\ video' = [video EXCEPT ![v].status = "failed", ![v].processing_error = "err"]
    /\ tasks' = [tasks EXCEPT ![t].pc = "rmtree", ![t].mem = NoVideo,
                              ![t].qualities_info = <<>>, ![t].log = <<>>]
    /\ UNCHANGED <<qualities, dir, queue, now, hist, claimed, last_sweep, cancelled_queued, manifest, response, scaled>>

\* ... then, if the working directory exists, shutil.rmtree inside
\* try/except: a failed removal is logged and the directory stays.  process()
\* re-raises.
PipeRmtree(t) ==
    LET v == tasks[t].video IN
    /\ tasks[t].pc = "rmtree"
    /\ \/ /\ dir' = [dir EXCEPT ![v] = FALSE]
          /\ manifest' = [manifest EXCEPT ![v] = <<>>]
       \/ /\ dir[v]
          /\ UNCHANGED <<dir, manifest>>
    /\ tasks' = [tasks EXCEPT ![t].pc = "on_fail"]
    /\ hist' = [hist EXCEPT ![v] = Append(@, "fail")]
    /\ UNCHANGED <<video, qualities, queue, now, claimed, last_sweep, cancelled_queued, response, scaled>>

\* Back in process_video_task, on success: the entry is saved completed.
TaskComplete(t) ==
    LET e == tasks[t].queue_task IN
    /\ tasks[t].pc = "complete"
    /\ queue' = IF e = NoEntry THEN queue ELSE [queue EXCEPT ![e].status = "completed"]
    /\ tasks' = [tasks EXCEPT ![t].pc = "succeeded"]
    /\ UNCHANGED <<video, qualities, dir, now, hist, claimed, last_sweep, cancelled_queued, manifest, response, scaled>>

\* except Exception: the entry is saved failed with retry_count + 1; with an
\* entry and retry_count < max_retries, self.retry(countdown=retry_delay)
\* re-publishes the message unless the task's own max_retries is used up.
TaskOnFail(t) ==
    LET e == tasks[t].queue_task
        rc == tasks[t].retry_count + 1 IN
    /\ tasks[t].pc = "on_fail"
    /\ queue' = IF e = NoEntry THEN queue
                ELSE [queue EXCEPT ![e].status = "failed", ![e].error_message = "err",
                                   ![e].retry_count = rc]
    /\ IF e # NoEntry /\ rc < queue[e].max_retries
       THEN IF tasks[t].retries < TaskMaxRetries
            THEN tasks' = [tasks EXCEPT ![t].pc = "queued", ![t].retry_count = rc,
                                        ![t].retries = @ + 1,
                                        ![t].countdown = RetryDelay(rc)]
            ELSE tasks' = [tasks EXCEPT ![t].pc = "failed", ![t].retry_count = rc]
       ELSE tasks' = [tasks EXCEPT ![t].pc = "failed"]
    /\ UNCHANGED <<video, qualities, dir, now, hist, claimed, last_sweep, cancelled_queued, manifest, response, scaled>>

Worker(t) ==
    \/ TaskGet(t)
    \/ TaskSaveStatus(t)
    \/ TaskSelect(t)
    \/ TaskClaim(t)
    \/ PipeMkdir(t)
    \/ PipeMeta(t)
    \/ PipeThumb(t)
    \/ PipeTier(t)
    \/ PipeMaster(t)
    \/ PipeRecords(t)
    \/ PipeFinalize(t)
    \/ PipeHandleError(t)
    \/ PipeRmtree(t)
    \/ TaskComplete(t)
    \/ TaskOnFail(t)

\* ------------------------------------------------- views and admin
\* the retry carried out whatever the status of the video
RetryAnyStatus(v) ==
    /\ video[v].status # "absent"
    /\ Len(queue) < MaxEntries
    /\ FreeSlots # {}
    /\ video' = [video EXCEPT ![v].status = "uploaded", ![v].processing_error = "",
                              ![v].processing_progress = 0]
    /\ queue' = Append(queue, NewEntry(v, "high"))
    /\ tasks' = Delay(v)
    /\ response' = [NoResponse EXCEPT !.code = HttpOk]
    /\ UNCHANGED <<qualities, dir, now, hist, claimed, last_sweep, cancelled_queued, manifest, scaled>>

\* VideoRetryProcessingView.post on a video that is not failed:
\* 400 'Can only retry failed videos', returned before any write.
RetryRejected(v) ==
    /\ video[v].status \notin {"absent", "failed"}
    /\ response' = [NoResponse EXCEPT !.code = HttpBadRequest]
    /\ UNCHANGED <<video, qualities, dir, queue, tasks, now, hist, claimed, last_sweep, cancelled_queued, manifest, scaled>>

\* the retry entry created with the default priority of the upload view
RetryProcessingAsNormal(v) ==
    /\ video[v].status = "failed"
    /\ Len(queue) < MaxEntries
    /\ FreeSlots # {}
    /\ video' = [video EXCEPT ![v].status = "uploaded", ![v].processing_error = "",
                              ![v].processing_progress = 0]
    /\ queue' = Append(queue, NewEntry(v, "normal"))
    /\ tasks' = Delay(v)
    /\ UNCHANGED <<qualities, dir, now, hist, claimed, last_sweep, cancelled_queued, manifest, response, scaled>>

\* VideoRetryProcessingView.post: only a failed video; reset, new entry with
\* priority high, dispatch.
RetryProcessing(v) ==
    /\ video[v].status = "failed"
    /\ Len(queue) < MaxEntries
    /\ FreeSlots # {}
    /\ video' = [video EXCEPT ![v].status = "uploaded", ![v].processing_error = "",
                              ![v].processing_progress = 0]
    /\ queue' = Append(queue, NewEntry(v, "high"))
    /\ tasks' = Delay(v)
    /\ UNCHANGED <<qualities, dir, now, hist, claimed, last_sweep, cancelled_queued, manifest, response, scaled>>

\* BulkVideoProcessView._bulk_process, one id of video_ids: skipped when the
\* video is processing or ready, otherwise a new entry and a dispatch.
BulkProcess(v, p) ==
    /\ video[v].status \notin {"absent", "processing", "ready"}
    /\ Len(queue) < MaxEntries
    /\ FreeSlots # {}
    /\ queue' = Append(queue, NewEntry(v, p))
    /\ tasks' = Delay(v)
    /\ UNCHANGED <<video, qualities, dir, now, hist, claimed, last_sweep, cancelled_queued, manifest, response, scaled>>

\* VideoProcessingQueueAdmin.cancel_tasks: queryset.update(status='cancelled')
\* on the selected rows, whatever their status.
CancelTasks(S) ==
    /\ S # {}
    /\ queue' = [e \in EntryIds |->
                    IF e \in S THEN [queue[e] EXCEPT !.status = "cancelled"] ELSE queue[e]]
    /\ cancelled_queued' = cancelled_queued \cup
            {e \in S : /\ queue[e].status = "queued"
                       /\ video[queue[e].video].status = "uploaded"
                       /\ \A t \in TaskIds : tasks[t].pc \in {"free", "queued"}}
    /\ UNCHANGED <<video, qualities, dir, tasks, now, hist, claimed, last_sweep, manifest, response, scaled>>

\* The admin selects one row.
CancelOne(e) == CancelTasks({e})

\* VideoAdmin.mark_as_ready: queryset.update(status='ready') on the selected
\* row, whatever its status.
MarkAsReady(v) ==
    /\ video[v].status # "absent"
    /\ video' = [video EXCEPT ![v].status = "ready"]
    /\ UNCHANGED <<qualities, dir, queue, tasks, now, hist, claimed, last_sweep, cancelled_queued, manifest, response, scaled>>

\* VideoAdmin.reprocess_videos, one selected row: a failed or uploaded video
\* gets process_video_task.delay; no queue entry is created.
ReprocessVideos(v) ==
    /\ video[v].status \in {"failed", "uploaded"}
    /\ FreeSlots # {}
    /\ tasks' = Delay(v)
    /\ UNCHANGED <<video, qualities, dir, queue, now, hist, claimed, last_sweep, cancelled_queued, manifest, response, scaled>>

CalculateQueuePositionRanked(e) ==
    IF queue[e].status # "queued"
    THEN 0
    ELSE Cardinality({o \in EntryIds :
                        /\ queue[o].status = "queued"
                        /\ PriorityRank(queue[o].priority) >= PriorityRank(queue[e].priority)
                        /\ o < e}) + 1

\* VideoProcessingStatusView._calculate_queue_position: 0 unless queued, else
\* filter(status='queued', priority__gte=..., queued_at__lt=...).count() + 1.
CalculateQueuePosition(e) ==
    IF queue[e].status # "queued"
    THEN 0
    ELSE Cardinality({o \in EntryIds :
                        /\ queue[o].status = "queued"
                        /\ StrRank(queue[o].priority) >= StrRank(queue[e].priority)
                        /\ o < e}) + 1

\* VideoProcessingStatusView.retrieve: the first queued or processing entry
\* of the video, if any, is reported with its queue_position.
ProcessingStatus(v) ==
    LET S == {e \in EntryIds : queue[e].video = v /\ queue[e].status \in {"queued", "processing"}}
    IN  /\ video[v].status # "absent"
        /\ response' = IF S = {} THEN [NoResponse EXCEPT !.code = HttpOk]
                       ELSE [entry |-> First(S),
                             queue_position |-> CalculateQueuePosition(First(S)),
                             code |-> HttpOk]
        /\ UNCHANGED <<video, qualities, dir, queue, tasks, now, hist, claimed, last_sweep, cancelled_queued, manifest, scaled>>

\* ------------------------------------------------- periodic tasks
AllQueued == {e \in EntryIds : queue[e].status = "queued"}

ProcessQueuedVideosStarted ==
    LET S == {e \in EntryIds : queue[e].status = "processing"} IN
    /\ S # {}
    /\ FreeSlots # {}
    /\ tasks' = Delay(queue[First(S)].video)
    /\ UNCHANGED <<video, qualities, dir, queue, now, hist, claimed, last_sweep, cancelled_queued, manifest, response, scaled>>

\* process_queued_videos (beat, every 5 minutes): the first queued entry by
\* ('-priority', 'queued_at'); process_video_task.delay for its video.
ProcessQueuedVideos ==
    /\ AllQueued # {}
    /\ FreeSlots # {}
    /\ tasks' = Delay(queue[First(AllQueued)].video)
    /\ UNCHANGED <<video, qualities, dir, queue, now, hist, claimed, last_sweep, cancelled_queued, manifest, response, scaled>>

\* cleanup_old_processing_tasks (beat, hourly): status processing and
\* started_at < now - 2 hours; a NULL started_at matches no __lt filter.
StaleTasks ==
    {e \in EntryIds : /\ queue[e].status = "processing"
                      /\ queue[e].started_at # NullTime
                      /\ queue[e].started_at < now - StaleHours}

CleanupOldProcessingTasks ==
    /\ queue' = [e \in EntryIds |->
                    IF e \in StaleTasks
                    THEN [queue[e] EXCEPT !.status = "failed", !.error_message = "timeout"]
                    ELSE queue[e]]
    /\ video' = [v \in Videos |->
                    IF \E e \in StaleTasks : queue[e].video = v
                    THEN [video[v] EXCEPT !.status = "failed",
                                          !.processing_error = "Processing timed out"]
                    ELSE video[v]]
    /\ last_sweep' = now
    /\ UNCHANGED <<qualities, dir, tasks, now, hist, claimed, cancelled_queued, manifest, response, scaled>>

\* the values of --hours the video_cleanup command is run with (the default
\* of 24 lies beyond the clock of the model)
CleanupHours == {1, 2}

StaleVideos(hours) ==
    {v \in Videos : /\ video[v].status = "uploaded"
                    /\ video[v].created_at < now - hours}

\* utils.cleanup_failed_uploads(hours), as the management command calls it:
\* every video in status uploaded created more than `hours` ago is deleted;
\* on_delete=CASCADE removes its queue entries (kept here as rows of status
\* "deleted", which no filter matches).  The Celery wrapper
\* cleanup_failed_uploads_task imports the function from .views, where it is
\* not defined, and so raises ImportError before it does anything.
CleanupFailedUploads(hours) ==
    /\ StaleVideos(hours) # {}
    /\ video' = [v \in Videos |-> IF v \in StaleVideos(hours) THEN NoVideo ELSE video[v]]
    /\ queue' = [e \in EntryIds |->
                    IF queue[e].video \in StaleVideos(hours)
                    THEN [queue[e] EXCEPT !.status = "deleted"]
                    ELSE queue[e]]
    /\ UNCHANGED <<qualities, dir, tasks, now, hist, claimed, last_sweep, cancelled_queued,
                   manifest, response, scaled>>

\* An hour passes.
Tick ==
    /\ now < MaxTime
    /\ now' = now + 1
    /\ UNCHANGED <<video, qualities, dir, queue, tasks, hist, claimed, last_sweep, cancelled_queued, manifest, response, scaled>>

\* The worker process dies in the middle of an execution (the message was
\* acknowledged when the execution began: nothing re-delivers it).
Running == {"save_status", "select", "claim", "mkdir", "meta", "thumb", "tier", "master",
            "records", "finalize", "handle_error", "rmtree", "complete", "on_fail"}

Crash(t) ==
    /\ tasks[t].pc \in Running
    /\ tasks' = [tasks EXCEPT ![t].pc = "crashed"]
    /\ UNCHANGED <<video, qualities, dir, queue, now, hist, claimed, last_sweep, cancelled_queued, manifest, response, scaled>>

\* ------------------------------------------------- specifications
\* The request handlers, the dispatcher and the workers, on one video.
Next ==
    \/ \E v \in OneVideo, p \in InputPriorities : Upload(v, p)
    \/ \E v \in OneVideo : RetryProcessing(v)
    \/ \E v \in OneVideo, p \in InputPriorities : BulkProcess(v, p)
    \/ ProcessQueuedVideos
    \/ \E t \in TaskIds : Worker(t)

Spec == Init /\ [][Next]_vars

\* Uploads of several videos, the dispatcher and the workers.
NextFleet ==
    \/ \E v \in Videos, p \in InputPriorities : Upload(v, p)
    \/ ProcessQueuedVideos
    \/ \E t \in TaskIds : Worker(t)

SpecFleet == Init /\ [][NextFleet]_vars

\* Upload of one video, the admin cancel action, the dispatcher and the workers.
NextAdmin ==
    \/ \E v \in OneVideo, p \in InputPriorities : Upload(v, p)
    \/ \E e \in EntryIds : CancelOne(e)
    \/ ProcessQueuedVideos
    \/ \E t \in TaskIds : Worker(t)

SpecAdmin == Init /\ [][NextAdmin]_vars

\* One video, workers that may die, retry requests that are refused, the clock
\* and the hourly sweep.
NextReaper ==
    \/ \E v \in OneVideo, p \in InputPriorities : Upload(v, p)
    \/ \E t \in TaskIds : Worker(t)
    \/ \E t \in TaskIds : Crash(t)
    \/ \E v \in OneVideo : RetryRejected(v)
    \/ Tick
    \/ CleanupOldProcessingTasks

SpecReaper == Init /\ [][NextReaper]_vars

\* Upload of one video, the video admin actions and the workers.
NextVideoAdmin ==
    \/ \E v \in OneVideo, p \in InputPriorities : Upload(v, p)
    \/ \E v \in OneVideo : MarkAsReady(v)
    \/ \E v \in OneVideo : ReprocessVideos(v)
    \/ \E t \in TaskIds : Worker(t)

SpecVideoAdmin == Init /\ [][NextVideoAdmin]_vars

\* Uploads with every priority or none, cancellations, processing-status
\* requests and dispatcher ticks while no worker has taken a message.
NextStatus ==
    \/ \E v \in Videos, req \in RequestPriorities : UploadRequest(v, req)
    \/ \E e \in EntryIds : CancelOne(e)
    \/ \E v \in Videos : ProcessingStatus(v)
    \/ ProcessQueuedVideos

SpecStatus == Init /\ [][NextStatus]_vars

\* the frame rate of the sources of the scaling specification
OneRate == {<<30, 1>>}

\* The scaling arithmetic of _process_quality over every preset and every
\* source size up to MaxDim x MaxDim.
NextScale ==
    \E i \in 1..Len(Tiers), iw \in 1..MaxDim, ih \in 1..MaxDim, down \in BOOLEAN,
       rate \in OneRate :
        ProcessQualityScale(Tiers[i], iw, ih, down, rate)

SpecScale == Init /\ [][NextScale]_vars

\* the task of the upload itself, whose worker may die
OneTask == {1}

\* Upload of one video, the dispatcher and the workers; the worker that runs
\* the upload's own task may die.  A Celery worker runs the code of a task it
\* has received step after step, and beat sends process_queued_videos every
\* 5 minutes: weak fairness on each task's steps and on the dispatcher.
NextLive ==
    \/ \E v \in OneVideo, p \in InputPriorities : Upload(v, p)
    \/ ProcessQueuedVideos
    \/ \E t \in TaskIds : Worker(t)
    \/ \E t \in OneTask : Crash(t)

SpecLive ==
    /\ Init /\ [][NextLive]_vars
    /\ \A t \in TaskIds : WF_vars(Worker(t))
    /\ WF_vars(ProcessQueuedVideos)

\* the sides of the sources of the encoding specification
SourceSides == {9, 12, 16}

\* The encoder arguments of _process_quality over every preset and every
\* frame rate, for sources of a few shapes.
NextEncode ==
    \E i \in 1..Len(Tiers), iw \in SourceSides, ih \in SourceSides, down \in BOOLEAN,
       rate \in FrameRates :
        ProcessQualityScale(Tiers[i], iw, ih, down, rate)

SpecEncode == Init /\ [][NextEncode]_vars

\* Uploads that wait in the broker, the clock and the stale-upload cleanup.
NextCleanup ==
    \/ \E v \in Videos, p \in InputPriorities : Upload(v, p)
    \/ Tick
    \/ \E hours \in CleanupHours : CleanupFailedUploads(hours)

SpecCleanup == Init /\ [][NextCleanup]_vars

\* ------------------------------------------------- claims
EntriesOf(v) == {e \in EntryIds : queue[e].video = v}
TasksOf(v) == {t \in TaskIds : tasks[t].pc # "free" /\ tasks[t].video = v}

\* Inside VideoProcessor.process: its first step is done, its return or
\* re-raise is not (pc names the step a task executes next).
InProcess == {"meta", "thumb", "tier", "master", "records", "finalize",
              "handle_error", "rmtree"}
\* No execution and no message of the task is left.
Ended == {"succeeded", "failed", "crashed"}

\* C1: no queue entry is claimed twice: at most one task performs the
\* queued -> processing write for an entry and runs the pipeline for it.
C1_ClaimedOnce ==
    \A e \in EntryIds : Cardinality({t \in TaskIds : <<t, e>> \in claimed}) <= 1

\* C2: for every video at most one of its queue entries is queued or processing.
C2_OneActiveEntry ==
    \A v \in Videos :
        Cardinality({e \in EntriesOf(v) : queue[e].status \in {"queued", "processing"}}) <= 1

\* C3: at no time are two runs of VideoProcessor.process active for one video.
C3_OneRunPerVideo ==
    \A v \in Videos :
        Cardinality({t \in TasksOf(v) : tasks[t].pc \in InProcess}) <= 1

\* The head of the queue in the order urgent > high > normal > low, earliest
\* queued_at first within a priority.
IsHead(e) ==
    \A o \in AllQueued \ {e} :
        \/ PriorityRank(queue[e].priority) > PriorityRank(queue[o].priority)
        \/ /\ queue[e].priority = queue[o].priority
           /\ e < o

\* C4: an entry that moves from queued to processing was, at that moment, the
\* queued entry of highest priority and, within that priority, the earliest.
C4_DequeueOrder ==
    [][\A e \in EntryIds :
          (queue[e].status = "queued" /\ queue'[e].status = "processing") => IsHead(e)]_vars

AllFail(v) == hist[v] # <<>> /\ \A i \in 1..Len(hist[v]) : hist[v][i] = "fail"

\* C5: a video whose pipeline fails on every attempt is retried automatically
\* exactly 3 times; its entry then is failed with retry_count = max_retries.
\* Stated for a video with one entry and one task message, once that task has
\* ended for good.
C5_ThreeRetries ==
    \A v \in Videos : \A t \in TasksOf(v) : \A e \in EntriesOf(v) :
        ( /\ TasksOf(v) = {t}
          /\ EntriesOf(v) = {e}
          /\ tasks[t].pc = "failed"
          /\ AllFail(v) )
        => /\ tasks[t].retries = TaskMaxRetries
           /\ Len(hist[v]) = TaskMaxRetries + 1
           /\ queue[e].status = "failed"
           /\ queue[e].retry_count = queue[e].max_retries

\* C6: the countdown of the k-th automatic retry of a task is 60 * 2^(k-1)
\* seconds: 60, 120, 240.
C6_Backoff ==
    \A t \in TaskIds :
        tasks[t].retries >= 1 => tasks[t].countdown = BackoffBase * Pow2(tasks[t].retries - 1)

\* C7: when the pipeline of a video failed on attempts 1 and 2 and succeeded
\* on attempt 3 and no task of the video is left, exactly one entry of the
\* video is completed and that entry has retry_count = 2.
C7_ThirdAttempt ==
    \A v \in Videos :
        ( /\ hist[v] = <<"fail", "fail", "ok">>
          /\ \A t \in TasksOf(v) : tasks[t].pc \in Ended )
        => /\ Cardinality({e \in EntriesOf(v) : queue[e].status = "completed"}) = 1
           /\ \A e \in EntriesOf(v) :
                  queue[e].status = "completed" => queue[e].retry_count = 2

\* C8: after a sweep of cleanup_old_processing_tasks no entry is left in
\* status processing that had been processing for more than the 2 hours
\* when the sweep ran.
C8_StaleReaped ==
    \A e \in EntryIds :
        ~ ( /\ queue[e].status = "processing"
            /\ last_sweep # NullTime
            /\ queue[e].claimed_at # NullTime
            /\ queue[e].claimed_at < last_sweep - StaleHours )

\* C9: an entry cancelled while queued (its video uploaded, the dispatched
\* task not begun) stays cancelled, its video stays uploaded and no pipeline
\* run begins for the video.
C9_CancelQueued ==
    \A e \in cancelled_queued :
        /\ queue[e].status = "cancelled"
        /\ video[queue[e].video].status = "uploaded"
        /\ \A t \in TasksOf(queue[e].video) : tasks[t].pc \notin InProcess
        /\ hist[queue[e].video] = <<>>

\* C10: an entry becomes cancelled only from status queued.
C10_CancelOnlyQueued ==
    [][\A e \in EntryIds :
          (queue[e].status # "cancelled" /\ queue'[e].status = "cancelled")
              => queue[e].status = "queued"]_vars

Terminal == {"completed", "failed", "cancelled"}

\* C11: once an entry's status is completed, failed or cancelled, no later
\* step changes its status, retry_count or error_message.
C11_TerminalFrozen ==
    [][\A e \in EntryIds :
          queue[e].status \in Terminal
              => /\ queue'[e].status = queue[e].status
                 /\ queue'[e].retry_count = queue[e].retry_count
                 /\ queue'[e].error_message = queue[e].error_message]_vars

\* C12: a task that is inside VideoProcessor.process (it has written to the
\* video) holds an entry of the video that it moved to processing itself.
C12_PipelineHoldsEntry ==
    \A t \in TaskIds :
        tasks[t].pc \in InProcess
            => /\ tasks[t].queue_task # NoEntry
               /\ <<t, tasks[t].queue_task>> \in claimed
               /\ queue[tasks[t].queue_task].video = tasks[t].video

\* C13: processing_progress never decreases while the video stays
\* processing, and the only step that lowers it at all is the explicit retry
\* (failed -> uploaded), which sets it to 0.
C13_ProgressMonotone ==
    [][\A v \in Videos :
          video'[v].processing_progress < video[v].processing_progress
              => /\ video[v].status = "failed"
                 /\ video'[v].status = "uploaded"
                 /\ video'[v].processing_progress = 0]_vars

NonDecreasing(sq) == \A i \in 1..(Len(sq) - 1) : sq[i] <= sq[i + 1]

C15_ReadyHasOutput ==
    \A v \in Videos :
        video[v].status = "ready"
            => /\ video[v].master_playlist_path # ""
               /\ qualities[v] # {}

\* C16: at the step with which a failed process() returns (the re-raise after
\* _handle_error), the video is failed, processing_error holds the message
\* and the working directory does not exist.
C16_FailureLeavesNothing ==
    [][\A t \in TaskIds :
          (tasks[t].pc = "rmtree" /\ tasks'[t].pc = "on_fail")
              => /\ video'[tasks[t].video].status = "failed"
                 /\ video'[tasks[t].video].processing_error = "err"
                 /\ ~dir'[tasks[t].video]]_vars

C18_ReadyWithoutError ==
    [][\A t \in TaskIds :
          (tasks[t].pc = "finalize" /\ tasks'[t].pc = "complete")
              => /\ video'[tasks[t].video].status = "ready"
                 /\ video'[tasks[t].video].processing_error = ""]_vars

\* The position the specification gives a queued entry: 1 plus the number of
\* other queued entries of at least its priority (urgent > high > normal >
\* low) that were queued strictly earlier.
RankedPosition(e) ==
    1 + Cardinality({o \in EntryIds \ {e} :
                        /\ queue[o].status = "queued"
                        /\ PriorityRank(queue[o].priority) >= PriorityRank(queue[e].priority)
                        /\ o < e})

\* C19: the queue_position a processing-status request reports for a queued
\* entry is 1 plus the number of other queued entries of at least its
\* priority, in the order urgent > high > normal > low, queued earlier.
C19_QueuePosition ==
    [][\A v \in Videos :
          (ProcessingStatus(v) /\ response'.entry # NoEntry
                               /\ queue[response'.entry].status = "queued")
              => response'.queue_position = RankedPosition(response'.entry)]_vars

\* C20: the step that takes a video from failed to uploaded (the
\* retry-processing request) leaves processing_error empty and
\* processing_progress 0 and appends exactly one entry, of that video, queued,
\* with priority high; no other entry changes.
C20_RetryResets ==
    [][\A v \in Videos :
          (video[v].status = "failed" /\ video'[v].status = "uploaded")
              => /\ video'[v].processing_error = ""
                 /\ video'[v].processing_progress = 0
                 /\ Len(queue') = Len(queue) + 1
                 /\ queue'[Len(queue')].video = v
                 /\ queue'[Len(queue')].status = "queued"
                 /\ queue'[Len(queue')].priority = "high"
                 /\ \A e \in EntryIds : queue'[e] = queue[e]]_vars

\* A failed video has been retried: it is uploaded again, a pipeline run of it
\* has returned, and its newest entry is queued with priority high.
C20_Witness ==
    \E v \in Videos :
        /\ video[v].status = "uploaded"
        /\ video[v].processing_progress = 0
        /\ hist[v] # <<>>
        /\ queue # <<>>
        /\ queue[Len(queue)].video = v
        /\ queue[Len(queue)].status = "queued"
        /\ queue[Len(queue)].priority = "high"

\* C21: an upload creates the video with status uploaded and exactly one
\* entry for it, queued, with the priority of the request or normal when the
\* request has none, changes no other entry and dispatches one task for the
\* video.
C21_UploadCreates ==
    [][\A v \in Videos, req \in RequestPriorities :
          UploadRequest(v, req)
              => /\ video[v].status = "absent"
                 /\ video'[v].status = "uploaded"
                 /\ Len(queue') = Len(queue) + 1
                 /\ \A e \in EntryIds : queue'[e] = queue[e]
                 /\ queue'[Len(queue')].video = v
                 /\ queue'[Len(queue')].status = "queued"
                 /\ queue'[Len(queue')].priority = (IF req = NoPriority THEN "normal" ELSE req)
                 /\ Cardinality({t \in TaskIds : /\ tasks[t].pc = "free"
                                                 /\ tasks'[t].pc = "queued"
                                                 /\ tasks'[t].video = v}) = 1
                 /\ \A t \in TaskIds : tasks[t].pc # "free" => tasks'[t] = tasks[t]]_vars

\* An upload has been answered: the video is uploaded, its one entry is
\* queued with priority normal and a task message for the video is waiting.
C21_Witness ==
    \E v \in Videos :
        /\ video[v].status = "uploaded"
        /\ \E e \in EntryIds :
              /\ EntriesOf(v) = {e}
              /\ queue[e].status = "queued"
              /\ queue[e].priority = "normal"
        /\ \E t \in TaskIds : tasks[t].pc = "queued" /\ tasks[t].video = v

\* C22: for every preset and every source width and height the width and
\* height _process_quality computes are both even.
C22_EvenDimensions ==
    scaled # NoScale => /\ scaled.scale_width % 2 = 0
                        /\ scaled.scale_height % 2 = 0

\* A source wider than 16:9 whose quotient preset width / aspect ratio is odd
\* before the correction has been scaled.
C22_Witness ==
    /\ scaled # NoScale
    /\ scaled.width * PresetHeight(scaled.quality) > PresetWidth(scaled.quality) * scaled.height
    /\ ((PresetWidth(scaled.quality) * scaled.height) \div scaled.width) % 2 = 1
    /\ (PresetWidth(scaled.quality) * scaled.height) % scaled.width # 0

\* The task has composed the master manifest in its current run.
Composed == {"records", "finalize", "complete", "succeeded"}

\* C23: every composition of the master manifest lists one sub-manifest per
\* rendition in the order low, medium, high, and a composition over a
\* manifest composed before leaves the same content.
C23_ManifestIdempotent ==
    [][\A t \in TaskIds :
          (tasks[t].pc = "master" /\ tasks'[t].pc = "records")
              => /\ Len(manifest'[tasks[t].video]) = Len(tasks[t].qualities_info)
                 /\ manifest'[tasks[t].video] = <<"low", "medium", "high">>
                 /\ manifest[tasks[t].video] # <<>>
                        => manifest'[tasks[t].video] = manifest[tasks[t].video]]_vars

\* Two tasks of one video have each composed the manifest and it is in place.
C23_Witness ==
    \E t1 \in TaskIds, t2 \in TaskIds :
        /\ t1 # t2
        /\ tasks[t1].video = tasks[t2].video
        /\ tasks[t1].pc \in Composed
        /\ tasks[t2].pc \in Composed
        /\ Len(manifest[tasks[t1].video]) = Len(Tiers)

IsPrefix(a, b) == Len(a) <= Len(b) /\ \A i \in 1..Len(a) : a[i] = b[i]

\* The checkpoints of a run, one per step: directory, metadata, thumbnail,
\* tier low, medium, high, master manifest, rendition records, finalize.
Checkpoints == <<5, 10, 15, 40, 65, 90, 95, 98, 100>>

\* C24: the steps of one run happen in the order metadata, thumbnail, tier
\* low, medium, high, master manifest, rendition records, finalize, each after
\* the one before: the run writes the rendition records only after it
\* composed the master manifest, and sets the video ready only after it wrote
\* the records.
C24_StepOrder ==
    [][\A t \in TaskIds :
          /\ IsPrefix(tasks'[t].log, Checkpoints)
          /\ IsPrefix(tasks'[t].qualities_info, <<"low", "medium", "high">>)
          /\ Len(tasks'[t].log) > 3 =>
                 Len(tasks'[t].qualities_info) = IF Len(tasks'[t].log) < 6
                                                 THEN Len(tasks'[t].log) - 3 ELSE 3
          /\ ( /\ tasks[t].pc # tasks'[t].pc
               /\ tasks[t].pc \in InProcess
               /\ qualities'[tasks[t].video] # qualities[tasks[t].video] )
                 => /\ tasks[t].pc = "records"
                    /\ tasks[t].log = SubSeq(Checkpoints, 1, 7)
          /\ ( /\ tasks[t].pc # tasks'[t].pc
               /\ tasks[t].pc \in InProcess
               /\ video[tasks[t].video].status # "ready"
               /\ video'[tasks[t].video].status = "ready" )
                 => /\ tasks[t].log = SubSeq(Checkpoints, 1, 8)
                    /\ {"low", "medium", "high"} \subseteq qualities[tasks[t].video]]_vars

\* A run stands before finalize: eight checkpoints passed, the manifest
\* composed and the three records written.
C24_Witness ==
    \E t \in TaskIds :
        /\ tasks[t].pc = "finalize"
        /\ tasks[t].log = SubSeq(Checkpoints, 1, 8)
        /\ manifest[tasks[t].video] # <<>>
        /\ Cardinality(qualities[tasks[t].video]) = Len(Tiers)

\* C25: a run whose tier encode fails encodes no later tier, composes no
\* master manifest and writes no rendition record; its last write to the
\* video sets status failed; a run sets the video ready only with all three
\* tiers encoded and recorded.
C25_TierFailureFatal ==
    [][\A t \in TaskIds :
          tasks'[t] # tasks[t] =>
              /\ tasks[t].pc = "tier" =>
                     /\ tasks'[t].pc \in {"tier", "master", "handle_error"}
                     /\ tasks'[t].pc = "tier" =>
                            tasks'[t].qualities_info = SubSeq(Tiers, 1, tasks[t].idx)
                     /\ tasks'[t].pc = "master" =>
                            tasks'[t].qualities_info = <<"low", "medium", "high">>
                     /\ tasks'[t].pc = "handle_error" =>
                            /\ video' = video
                            /\ manifest' = manifest
                            /\ qualities' = qualities
              /\ tasks[t].pc \in {"handle_error", "rmtree"} =>
                     /\ tasks'[t].pc \in {"rmtree", "on_fail"}
                     /\ tasks'[t].qualities_info = <<>>
                     /\ qualities' = qualities
                     /\ manifest'[tasks[t].video] \in {manifest[tasks[t].video], <<>>}
                     /\ tasks[t].pc = "handle_error" =>
                            video'[tasks[t].video].status = "failed"
                     /\ tasks[t].pc = "rmtree" => video' = video
              /\ (tasks[t].pc = "finalize" /\ tasks'[t].pc = "complete") =>
                     /\ tasks[t].qualities_info = <<"low", "medium", "high">>
                     /\ qualities'[tasks[t].video] = {"low", "medium", "high"}]_vars

\* The one run of a video encoded tier low, failed in tier medium and
\* returned: the video is failed at progress 40 with no record and no manifest.
C25_Witness ==
    \E t \in TaskIds :
        /\ tasks[t].pc = "on_fail"
        /\ hist[tasks[t].video] = <<"fail">>
        /\ TasksOf(tasks[t].video) = {t}
        /\ video[tasks[t].video].status = "failed"
        /\ video[tasks[t].video].processing_progress = TierProgress(1)
        /\ qualities[tasks[t].video] = {}
        /\ manifest[tasks[t].video] = <<>>

\* C26: the thumbnail step never sends the run to the error handler: whether
\* or not a thumbnail was stored, the run (unless its worker process dies)
\* goes on to the first tier with progress 15.
C26_ThumbnailNonFatal ==
    [][\A t \in TaskIds :
          (tasks[t].pc = "thumb" /\ tasks'[t] # tasks[t] /\ tasks'[t].pc # "crashed")
              => /\ tasks'[t].pc = "tier"
                 /\ tasks'[t].idx = 1
                 /\ tasks'[t].log = <<5, 10, 15>>
                 /\ video'[tasks[t].video].processing_progress = 15
                 /\ hist' = hist]_vars

\* The one run of a video returned True and the video is ready without a
\* thumbnail.
C26_Witness ==
    \E t \in TaskIds :
        /\ tasks[t].pc = "complete"
        /\ hist[tasks[t].video] = <<"ok">>
        /\ video[tasks[t].video].status = "ready"
        /\ ~video[tasks[t].video].thumbnail_file

\* C27: a retry-processing request on a video that is not failed is answered
\* with 400 and changes neither the video nor the queue nor the task messages.
C27_RetryRejected ==
    [][\A v \in Videos :
          RetryRejected(v)
              => /\ video[v].status # "failed"
                 /\ response'.code = HttpBadRequest
                 /\ video' = video
                 /\ queue' = queue
                 /\ tasks' = tasks]_vars

\* A retry request has been refused while the video was processing, at
\* progress 15, with its entry claimed and its task running.
C27_Witness ==
    /\ response.code = HttpBadRequest
    /\ \E v \in Videos :
          /\ video[v].status = "processing"
          /\ video[v].processing_progress = 15
          /\ \E e \in EntriesOf(v) : queue[e].status = "processing"
          /\ \E t \in TasksOf(v) : tasks[t].pc = "tier"

\* C28: an entry whose persisted status is processing has a persisted
\* started_at.
C28_ProcessingHasStart ==
    \A e \in EntryIds :
        queue[e].status = "processing" => queue[e].started_at # NullTime

\* C29: once a video is ready, no step of a worker or of a periodic task
\* changes its status or removes its working directory.
C29_ReadyStays ==
    [][\A v \in Videos :
          video[v].status = "ready"
              => /\ video'[v].status = "ready"
                 /\ dir[v] => dir'[v]]_vars

\* C30: no step deletes a video that has a queue entry in status queued or
\* processing.
C30_CleanupSparesActive ==
    [][\A v \in Videos :
          (video[v].status # "absent" /\ video'[v].status = "absent")
              => ~ \E e \in EntriesOf(v) : queue[e].status \in {"queued", "processing"}]_vars

\* C31: every queue entry has 0 <= retry_count <= max_retries.
C31_RetryCountBounded ==
    \A e \in EntryIds :
        /\ 0 <= queue[e].retry_count
        /\ queue[e].retry_count <= queue[e].max_retries

\* an entry that a failed run has counted, while the task waits for its
\* automatic retry
C31_Witness ==
    \E e \in EntryIds, t \in TaskIds :
        /\ queue[e].status = "failed"
        /\ queue[e].retry_count > 0
        /\ tasks[t].video = queue[e].video
        /\ tasks[t].pc = "queued"
        /\ tasks[t].retries > 0

\* C32: in every state with a queued entry, the entry process_queued_videos
\* selects as next has queue position 1 by _calculate_queue_position.
C32_HeadHasPositionOne ==
    AllQueued # {} => CalculateQueuePosition(First(AllQueued)) = 1

\* two queued entries of different priorities, the later one the
\* dispatcher's next, and a processing-status answer that reports it first
C32_Witness ==
    /\ Cardinality(AllQueued) = 2
    /\ \E a, b \in AllQueued :
          /\ a < b
          /\ queue[a].priority # queue[b].priority
          /\ First(AllQueued) = b
    /\ response.entry = First(AllQueued)
    /\ response.queue_position = 1

RoundNearest(n, d) ==
    LET q == n \div d
        r == n % d
    IN  IF 2 * r < d THEN q
        ELSE IF 2 * r > d THEN q + 1
        ELSE IF q % 2 = 0 THEN q ELSE q + 1

\* C34: the keyframe interval passed to the encoder is the source frame rate
\* times the segment duration of 4 seconds, rounded to the nearest integer.
C34_KeyframeInterval ==
    scaled # NoScale
        => scaled.g = RoundNearest(scaled.fps_num * SegmentDuration, scaled.fps_den)
====
